---- MODULE Spec2Model ----
(***************************************************************************)
(* Model of the fuzzy matcher of code-fuzzy-match (src/src/lib.rs).        *)
(*                                                                         *)
(* Characters are Unicode code points (naturals); a string is a sequence   *)
(* of code points.  Vec indices are 0-based as in the source; the element  *)
(* v[i] of a Vec is v[i + 1] of the modelling sequence.  Option<usize> is  *)
(* a sequence of length at most one: None is <<>>, Some(s) is <<s>>.       *)
(***************************************************************************)
EXTENDS Naturals, Integers, Sequences, FiniteSets

\* ------------------------------------------------------------------ bounds

\* longest target / query of the exhaustive single-call specification SpecFn
MaxTargetLen == 3
MaxQueryLen == 2
\* longest target / query of the instance-reuse specification Spec
MaxReuseTargetLen == 3
MaxReuseQueryLen == 2

\* ------------------------------------------------------- Option and Vec

None == <<>>
Some(s) == <<s>>
IsSome(o) == o # <<>>

\* v[idx] with Rust's bounds check: None stands for the index panic
Index(v, idx) == IF idx \in 0..(Len(v) - 1) THEN Some(v[idx + 1]) ELSE None

\* faulty variant: resize(n, 0) without the clear keeps the old elements
ClearResizeNoClear(v, n) == [j \in 1..n |-> IF j <= Len(v) THEN v[j] ELSE 0]
\* Vec::clear followed by Vec::resize(n, 0)
ClearResize(v, n) == [j \in 1..n |-> 0]

\* (&mut v[from..to]).fill(0); the caller checks from <= to <= Len(v)
Fill(v, from, to) == [j \in 1..Len(v) |-> IF j > from /\ j <= to THEN 0 ELSE v[j]]

\* (&mut dst[from..to]).copy_from_slice(&src[from..to])
CopyFromSlice(dst, src, from, to) ==
    [j \in 1..Len(dst) |-> IF j > from /\ j <= to THEN src[j] ELSE dst[j]]

\* start..end is a valid slice range of a Vec of length len
RangeOk(start, end, len) == start <= end /\ end <= len

\* ------------------------------------------------------------ characters

is_ascii(c) == c < 128
is_ascii_uppercase(c) == c \in 65..90
to_ascii_lowercase(c) == IF is_ascii_uppercase(c) THEN c + 32 ELSE c
eq_ignore_ascii_case(a, b) == to_ascii_lowercase(a) = to_ascii_lowercase(b)

\* char::to_lowercase, an iterator of one or more characters, on the code
\* points the model uses: ASCII, Latin-1, U+0130 (two characters) and U+212A
to_lowercase(c) ==
    IF is_ascii_uppercase(c) THEN <<c + 32>>
    ELSE IF c \in 192..222 /\ c # 215 THEN <<c + 32>>
    ELSE IF c = 304 THEN <<105, 775>>
    ELSE IF c = 8490 THEN <<107>>
    ELSE <<c>>

\* char::is_uppercase on the same code points
is_uppercase(c) ==
    is_ascii_uppercase(c) \/ (c \in 192..222 /\ c # 215) \/ c = 304 \/ c = 8490

\* a.zip(b).all(|(x, y)| x == y): the longer iterator is cut to the shorter
ZipAllEq(a, b) ==
    LET k == IF Len(a) < Len(b) THEN Len(a) ELSE Len(b)
    IN \A j \in 1..k : a[j] = b[j]

\* matches!(target_char, '_' | '-' | '.' | ' ' | '\'' | '"' | ':')
target_separator(c) == c \in {95, 45, 46, 32, 39, 34, 58}

\* matches!(c, '/' | '\\')
is_path_separator(c) == c \in {47, 92}

\* faulty variant: '/' and '\\' each match only themselves
char_matches_no_backslash(target_char, query_char) ==
    IF target_char = 47 THEN query_char = 47
    ELSE IF target_char = 92 THEN query_char = 92
    ELSE IF is_ascii(target_char) THEN eq_ignore_ascii_case(target_char, query_char)
    ELSE ZipAllEq(to_lowercase(target_char), to_lowercase(query_char))

\* whether the query character matches the target character
char_matches(target_char, query_char) ==
    IF target_char = 47 THEN is_path_separator(query_char)
    ELSE IF target_char = 92 THEN is_path_separator(query_char)
    ELSE IF is_ascii(target_char) THEN eq_ignore_ascii_case(target_char, query_char)
    ELSE ZipAllEq(to_lowercase(target_char), to_lowercase(query_char))

\* ------------------------------------------------------------- the sweep

\* faulty variant: no same case bonus
same_case_bonus_none(target_char, query_char) == 0
\* the same case bonus
same_case_bonus(target_char, query_char) == IF target_char = query_char THEN 1 ELSE 0

\* faulty variant: no sequential match bonus
sequential_bonus_none(seq_match_count) == 0
\* the sequential match bonus
sequential_bonus(seq_match_count) == seq_match_count * 5

\* the score of one character match at target position i of n
char_score(target_char, query_char, i, n, seq_match_count, prev_is_separator) ==
    1
    + sequential_bonus(seq_match_count)
    + same_case_bonus(target_char, query_char)
    + (IF i = 0 THEN 8
       ELSE IF is_path_separator(target_char) THEN 5
       ELSE IF target_separator(target_char) THEN 4
       ELSE IF seq_match_count = 0
            THEN IF prev_is_separator THEN 2
                 ELSE IF is_ascii(target_char)
                      THEN (IF is_ascii_uppercase(target_char) THEN 2 ELSE 0)
                      ELSE (IF is_uppercase(target_char) THEN 2 ELSE 0)
            ELSE 0)
    + (IF i + 1 = n THEN 2 ELSE 0)

\* faulty variant: the row's previous entry is read at every position but 0
prev_target_score_from_zero(score, i, first_possible_target_idx) ==
    IF i = 0 THEN Some(0) ELSE Index(score, i - 1)
\* the best score of the current row before position i
prev_target_score(score, i, first_possible_target_idx) ==
    IF i = first_possible_target_idx THEN Some(0) ELSE Index(score, i - 1)

\* faulty variant: prev_score[i - 1] without the test for i == 0
prev_query_score_unguarded(prev_score, i) == Index(prev_score, i - 1)
\* the score of the previous query character at the previous target position
prev_query_score(prev_score, i) == IF i = 0 THEN Some(0) ELSE Index(prev_score, i - 1)

seq_match_count_of(prev_seq_match_counts, i) ==
    IF i = 0 THEN Some(0) ELSE Index(prev_seq_match_counts, i - 1)

\* the fast skip: no match of the previous query character ends before i
skip(first_query_char, prev_query_score_i) == ~first_query_char /\ prev_query_score_i = 0

\* faulty variant: a candidate equal to the previous score is not accepted
improved_strictly(new_score, prev_target_score_i) == new_score > prev_target_score_i
\* the acceptance test of a candidate score
improved(new_score, prev_target_score_i) == new_score >= prev_target_score_i

\* One iteration of the loop over target positions.  loc holds the rows being
\* written and the sweep's locals; m is the matcher, cursor the first
\* possible target index.
Cell(m, query_char, first_query_char, cursor, loc, i) ==
    LET tc == Index(m.target_chars, i)
        pts == prev_target_score(loc.score, i, cursor)
        pqs == prev_query_score(m.prev_score, i)
        smc == seq_match_count_of(m.prev_seq_match_counts, i)
    IN IF tc = None \/ pts = None \/ pqs = None \/ smc = None
          \/ Index(loc.score, i) = None \/ Index(loc.seq_match_counts, i) = None
       THEN [loc EXCEPT !.panic = TRUE]
       ELSE
       LET target_char == tc[1]
           sep == target_separator(target_char)
           keep == [loc EXCEPT !.score[i + 1] = pts[1], !.prev_is_separator = sep,
                               !.cells = @ + 1]
       IN IF skip(first_query_char, pqs[1]) THEN keep
          ELSE IF ~char_matches(target_char, query_char) THEN keep
          ELSE
          LET new_score == pqs[1] + char_score(target_char, query_char, i,
                                Len(m.target_chars), smc[1], loc.prev_is_separator)
          IN IF improved(new_score, pts[1])
             THEN [loc EXCEPT !.score[i + 1] = new_score,
                              !.seq_match_counts[i + 1] = smc[1] + 1,
                              !.first_nonzero_score =
                                  IF @ = None THEN Some(i) ELSE @,
                              !.prev_is_separator = sep,
                              !.cells = @ + 1]
             ELSE keep

\* for i in from..n
RECURSIVE SweepLoop(_, _, _, _, _, _)
SweepLoop(m, query_char, first_query_char, cursor, loc, i) ==
    IF i >= Len(m.target_chars) \/ loc.panic THEN loc
    ELSE SweepLoop(m, query_char, first_query_char, cursor,
                   Cell(m, query_char, first_query_char, cursor, loc, i), i + 1)

\* --------------------------------------------------------- the matcher

\* FuzzyMatcher::new
New ==
    [target_chars |-> <<>>, prev_seq_match_counts |-> <<>>, prev_score |-> <<>>,
     seq_match_counts |-> <<>>, score |-> <<>>]

\* the start of fuzzy_match: capture the target, clear and size the four rows
Enter(m, target) ==
    [target_chars |-> target,
     prev_seq_match_counts |-> ClearResize(m.prev_seq_match_counts, Len(target)),
     prev_score |-> ClearResize(m.prev_score, Len(target)),
     seq_match_counts |-> ClearResize(m.seq_match_counts, Len(target)),
     score |-> ClearResize(m.score, Len(target))]

\* the locals of a call that has just entered the loop over query characters:
\* rest is the query's character iterator; sweeps and cells count the sweeps
\* started and the target positions the last sweep visited; exit names the
\* return taken; before is how the matcher's previous call ended
Locals(target, query, before) ==
    [target |-> target, query |-> query, rest |-> query,
     first_possible_target_idx |-> 0, first_query_char |-> TRUE,
     pc |-> "loop", result |-> None, sweeps |-> 0, cells |-> 0,
     exit |-> "", before |-> before]

\* no call has been made
Idle ==
    [target |-> <<>>, query |-> <<>>, rest |-> <<>>,
     first_possible_target_idx |-> 0, first_query_char |-> TRUE,
     pc |-> "idle", result |-> None, sweeps |-> 0, cells |-> 0,
     exit |-> "", before |-> "new"]

\* the early return when the cursor is past the end of the target
PastEnd(m, c) == c.first_possible_target_idx >= Len(m.target_chars)

\* return None
ReturnNone(m, c, exit) ==
    [self |-> m, call |-> [c EXCEPT !.pc = "done", !.result = None, !.exit = exit]]

\* faulty variant: no early return, the loop goes on to the next character
NoMatchContinue(m, c) == [self |-> m, call |-> c]
\* the exit taken when a sweep sets no score
NoMatch(m, c) == ReturnNone(m, c, "no_match")

\* faulty variant: the cursor skips one position too many
next_possible_target_idx_skip(first_nonzero_score) == first_nonzero_score + 2
\* the cursor after a sweep whose first accepted match is at first_nonzero_score
next_possible_target_idx(first_nonzero_score) == first_nonzero_score + 1

\* the body of the loop over query characters for the next query character,
\* entered with the cursor inside the target
SweepStep(m, c) ==
    LET n == Len(m.target_chars)
        cursor == c.first_possible_target_idx
        fillOk == RangeOk(cursor, n, Len(m.seq_match_counts))
                  /\ RangeOk(cursor, n, Len(m.score))
        loc0 == [score |-> Fill(m.score, cursor, n),
                 seq_match_counts |-> Fill(m.seq_match_counts, cursor, n),
                 first_nonzero_score |-> None, prev_is_separator |-> FALSE,
                 panic |-> ~fillOk, cells |-> 0]
        loc == SweepLoop(m, Head(c.rest), c.first_query_char, cursor, loc0, cursor)
        m1 == [m EXCEPT !.score = loc.score, !.seq_match_counts = loc.seq_match_counts]
        c1 == [c EXCEPT !.rest = Tail(@), !.sweeps = @ + 1, !.cells = loc.cells]
    IN IF loc.panic THEN [self |-> m1, call |-> [c1 EXCEPT !.pc = "panic"]]
       ELSE IF loc.first_nonzero_score = None THEN NoMatch(m1, c1)
       ELSE
       LET f == loc.first_nonzero_score[1]
           copyOk == RangeOk(f, n, Len(m.prev_score)) /\ RangeOk(f, n, Len(loc.score))
                     /\ RangeOk(f, n, Len(m.prev_seq_match_counts))
                     /\ RangeOk(f, n, Len(loc.seq_match_counts))
       IN IF ~copyOk THEN [self |-> m1, call |-> [c1 EXCEPT !.pc = "panic"]]
          ELSE [self |-> [m1 EXCEPT
                            !.prev_score = CopyFromSlice(@, loc.score, f, n),
                            !.prev_seq_match_counts =
                                CopyFromSlice(@, loc.seq_match_counts, f, n)],
                call |-> [c1 EXCEPT
                            !.first_possible_target_idx = next_possible_target_idx(f),
                            !.first_query_char = FALSE]]

\* *self.prev_score.last().unwrap_or(&0)
LastOrZero(v) == IF Len(v) = 0 THEN 0 ELSE v[Len(v)]

\* faulty variant: the final score is returned without the test for zero
FinalStepNoSentinel(m, c) ==
    [self |-> m,
     call |-> [c EXCEPT !.pc = "done", !.exit = "final",
                        !.result = Some(LastOrZero(m.prev_score))]]
\* the end of fuzzy_match, after the last query character
FinalStep(m, c) ==
    LET s == LastOrZero(m.prev_score)
    IN [self |-> m,
        call |-> [c EXCEPT !.pc = "done", !.exit = "final",
                           !.result = IF s = 0 THEN None ELSE Some(s)]]

\* one step of a call in progress
Step(m, c) ==
    IF c.rest = <<>> THEN FinalStep(m, c)
    ELSE IF PastEnd(m, c) THEN ReturnNone(m, c, "past_end")
    ELSE SweepStep(m, c)

\* a call run to its return (or its panic)
RECURSIVE Run(_, _)
Run(m, c) == IF c.pc # "loop" THEN [self |-> m, call |-> c]
             ELSE LET r == Step(m, c) IN Run(r.self, r.call)

\* FuzzyMatcher::fuzzy_match on the matcher m
matcher_fuzzy_match(m, target, query) ==
    Run(Enter(m, target), Locals(target, query, "new"))

\* the free function fuzzy_match: a new matcher for the one call
fuzzy_match(target, query) == matcher_fuzzy_match(New, target, query).call.result

\* ------------------------------------------------------------- inputs

RECURSIVE SeqsOfLen(_, _)
SeqsOfLen(S, k) ==
    IF k = 0 THEN {<<>>}
    ELSE {<<x>> \o s : x \in S, s \in SeqsOfLen(S, k - 1)}

SeqsUpTo(S, k) == UNION {SeqsOfLen(S, j) : j \in 0..k}

\* 'a' 'A' '_' '/' '\\'
Alphabet == {97, 65, 95, 47, 92}
Targets == SeqsUpTo(Alphabet, MaxTargetLen)
Queries == SeqsUpTo(Alphabet, MaxQueryLen)

\* 'a' '_'
ReuseAlphabet == {97, 95}
\* 'a' 'b'
ReuseQueryAlphabet == {97, 98}
ReuseTargets == SeqsUpTo(ReuseAlphabet, MaxReuseTargetLen)
ReuseQueries == SeqsUpTo(ReuseQueryAlphabet, MaxReuseQueryLen)

\* the strings of the crate's tests and of the specification's examples

\* "The quick brown fox jumps over the lazy dog."
RankingTarget ==
    <<84, 104, 101, 32, 113, 117, 105, 99, 107, 32, 98, 114, 111, 119, 110, 32, 102, 111, 120, 32, 106, 117, 109, 112, 115, 32, 111, 118, 101, 114, 32, 116, 104, 101, 32, 108, 97, 122, 121, 32, 100, 111, 103, 46>>
\* "words with spaces"
WordsWithSpaces ==
    <<119, 111, 114, 100, 115, 32, 119, 105, 116, 104, 32, 115, 112, 97, 99, 101, 115>>
\* "words_with_underscores"
WordsWithUnderscores ==
    <<119, 111, 114, 100, 115, 95, 119, 105, 116, 104, 95, 117, 110, 100, 101, 114, 115, 99, 111, 114, 101, 115>>
\* "camelCaseWords"
CamelCaseWords ==
    <<99, 97, 109, 101, 108, 67, 97, 115, 101, 87, 111, 114, 100, 115>>
\* "/bin/ls"
BinLs ==
    <<47, 98, 105, 110, 47, 108, 115>>
\* "c:\windows\notepad.exe"
WindowsNotepad ==
    <<99, 58, 92, 119, 105, 110, 100, 111, 119, 115, 92, 110, 111, 116, 101, 112, 97, 100, 46, 101, 120, 101>>
\* "xz", "ee", "fx", "het", "fox", "the", "The", "JUMP", "jump", "fx over", "jmp the do", "jump the dog", "the quick", "The quick"
RankingQueries ==
    <<<<120, 122>>,
      <<101, 101>>,
      <<102, 120>>,
      <<104, 101, 116>>,
      <<102, 111, 120>>,
      <<116, 104, 101>>,
      <<84, 104, 101>>,
      <<74, 85, 77, 80>>,
      <<106, 117, 109, 112>>,
      <<102, 120, 32, 111, 118, 101, 114>>,
      <<106, 109, 112, 32, 116, 104, 101, 32, 100, 111>>,
      <<106, 117, 109, 112, 32, 116, 104, 101, 32, 100, 111, 103>>,
      <<116, 104, 101, 32, 113, 117, 105, 99, 107>>,
      <<84, 104, 101, 32, 113, 117, 105, 99, 107>>>>
\* "quick cat", "jmp the cat", "dog the fox", "xx"
RankingNonMatches ==
    {<<113, 117, 105, 99, 107, 32, 99, 97, 116>>,
     <<106, 109, 112, 32, 116, 104, 101, 32, 99, 97, 116>>,
     <<100, 111, 103, 32, 116, 104, 101, 32, 102, 111, 120>>,
     <<120, 120>>}
\* "wit"
Q_wit == <<119, 105, 116>>
\* "ith"
Q_ith == <<105, 116, 104>>
\* "spa"
Q_spa == <<115, 112, 97>>
\* "pac"
Q_pac == <<112, 97, 99>>
\* "und"
Q_und == <<117, 110, 100>>
\* "nde"
Q_nde == <<110, 100, 101>>
\* "Wor"
Q_Wor == <<87, 111, 114>>
\* "ord"
Q_ord == <<111, 114, 100>>
\* "/ls", "\ls", "/windows", "\windows", "fox", "cat", "Quick fox jumps the dog", "Quick fox jumps the cat"
OtherTestQueries ==
    {<<47, 108, 115>>,
     <<92, 108, 115>>,
     <<47, 119, 105, 110, 100, 111, 119, 115>>,
     <<92, 119, 105, 110, 100, 111, 119, 115>>,
     <<102, 111, 120>>,
     <<99, 97, 116>>,
     <<81, 117, 105, 99, 107, 32, 102, 111, 120, 32, 106, 117, 109, 112, 115, 32, 116, 104, 101, 32, 100, 111, 103>>,
     <<81, 117, 105, 99, 107, 32, 102, 111, 120, 32, 106, 117, 109, 112, 115, 32, 116, 104, 101, 32, 99, 97, 116>>}

ScenarioTargets ==
    {RankingTarget, WordsWithSpaces, WordsWithUnderscores, CamelCaseWords, BinLs,
     WindowsNotepad}
ScenarioQueries ==
    {RankingQueries[j] : j \in 1..Len(RankingQueries)} \cup RankingNonMatches
    \cup {Q_wit, Q_ith, Q_spa, Q_pac, Q_und, Q_nde, Q_Wor, Q_ord} \cup OtherTestQueries

\* ------------------------------------------------------ the state machine

VARIABLES self, call
vars == <<self, call>>

Init == self = New /\ call = Idle

\* how the call c, if any, ended: the next call's "before"
HowEnded(c) ==
    IF c.pc = "idle" THEN "new"
    ELSE IF c.exit = "final" THEN (IF IsSome(c.result) THEN "some" ELSE "empty")
    ELSE c.exit

\* matcher.fuzzy_match(target, query) is called and reaches its loop
Enters(target, query) ==
    /\ self' = Enter(self, target)
    /\ call' = Locals(target, query, HowEnded(call))

\* a call on a matcher that may have served earlier calls
Call ==
    /\ call.pc \in {"idle", "done"}
    /\ \E target \in ReuseTargets, query \in ReuseQueries : Enters(target, query)

\* the one call of the free function, on its new matcher
FreshCall ==
    /\ call.pc = "idle"
    /\ \E target \in Targets, query \in Queries : Enters(target, query)

\* a call of the free function on one of the tests' strings
ScenarioCall ==
    /\ call.pc = "idle"
    /\ \E target \in ScenarioTargets, query \in ScenarioQueries : Enters(target, query)

ReturnPastEnd ==
    /\ call.pc = "loop" /\ call.rest # <<>> /\ PastEnd(self, call)
    /\ self' = self
    /\ call' = ReturnNone(self, call, "past_end").call

Sweep ==
    /\ call.pc = "loop" /\ call.rest # <<>> /\ ~PastEnd(self, call)
    /\ LET r == SweepStep(self, call) IN self' = r.self /\ call' = r.call

Finish ==
    /\ call.pc = "loop" /\ call.rest = <<>>
    /\ LET r == FinalStep(self, call) IN self' = r.self /\ call' = r.call

Next == Call \/ ReturnPastEnd \/ Sweep \/ Finish
Spec == Init /\ [][Next]_vars

NextFn == FreshCall \/ ReturnPastEnd \/ Sweep \/ Finish
SpecFn == Init /\ [][NextFn]_vars

NextScenario == ScenarioCall \/ ReturnPastEnd \/ Sweep \/ Finish
SpecScenario == Init /\ [][NextScenario]_vars

Done == call.pc = "done"

\* ---------------------------------------------------------------- claims

\* the character equality the claims speak of: case-insensitive, with '/'
\* and '\\' equal to each other
MatcherCharEq(t, q) ==
    (is_path_separator(t) /\ is_path_separator(q)) \/ to_lowercase(t) = to_lowercase(q)

\* query's characters are found in target, in order, under MatcherCharEq
RECURSIVE IsSubsequence(_, _)
IsSubsequence(target, query) ==
    IF query = <<>> THEN TRUE
    ELSE IF target = <<>> THEN FALSE
    ELSE IF MatcherCharEq(Head(target), Head(query))
         THEN IsSubsequence(Tail(target), Tail(query))
         ELSE IsSubsequence(Tail(target), query)

Range(s) == {s[j] : j \in 1..Len(s)}

\* C1: a query that is no in-order subsequence of the target (under the
\* matcher's character equality) gets None; so does a non-empty query against
\* an empty target and a query longer than the target.
C1_NoMatchCompleteness ==
    Done => /\ ~IsSubsequence(call.target, call.query) => call.result = None
            /\ Len(call.query) > Len(call.target) => call.result = None

\* a query whose first character matched and whose second is found only
\* before it was answered None
C1_Witness ==
    /\ Done /\ call.result = None /\ call.sweeps >= 2
    /\ ~IsSubsequence(call.target, call.query)
    /\ Range(call.query) \subseteq Range(call.target)

\* C2: a non-empty query that is an in-order subsequence of the target gets
\* Some(s) with s >= 1.
C2_MatchPositive ==
    Done /\ call.query # <<>> /\ IsSubsequence(call.target, call.query)
        => IsSome(call.result) /\ call.result[1] >= 1

\* a two-character query matched although an occurrence of its second
\* character was rejected or lies before the cursor
C2_Witness ==
    /\ Done /\ IsSome(call.result) /\ Len(call.query) = 2
    /\ IsSubsequence(call.target, call.query)
    /\ \E j \in 1..Len(call.target) :
          /\ MatcherCharEq(call.target[j], call.query[2])
          /\ self.seq_match_counts[j] = 0

\* C3: a call on a matcher that served earlier calls returns what a new
\* matcher returns for the same target and query.
C3_ReuseEquivalence ==
    Done => call.result = fuzzy_match(call.target, call.query)

\* a match found by a matcher whose previous call returned None from inside
\* the loop
C3_Witness ==
    Done /\ IsSome(call.result) /\ call.before \in {"no_match", "past_end"}

\* C8: an empty query returns None, whatever the target and whatever the
\* matcher did before.
C8_EmptyQueryNone ==
    Done /\ call.query = <<>> => call.result = None

\* an empty query against a non-empty target, on a matcher that has just
\* returned Some
C8_Witness ==
    Done /\ call.query = <<>> /\ call.target # <<>> /\ call.before = "some"
        /\ call.result = None

\* the four rows are as long as the target
RowLengths ==
    /\ self.target_chars = call.target
    /\ Len(self.prev_seq_match_counts) = Len(call.target)
    /\ Len(self.prev_score) = Len(call.target)
    /\ Len(self.seq_match_counts) = Len(call.target)
    /\ Len(self.score) = Len(call.target)

\* C9: no call panics; it makes at most |query| sweeps of at most |target|
\* positions and then returns; during the call the four rows are as long as
\* the target, every index is in range and every slice starts at or before
\* the end of its Vec.
C9_NoFatalError ==
    /\ call.pc # "panic"
    /\ call.pc \in {"loop", "done"} =>
          /\ RowLengths
          /\ call.first_possible_target_idx <= Len(call.target)
          /\ call.sweeps <= Len(call.query)
          /\ call.cells <= Len(call.target)
    /\ call.pc = "loop" =>
          /\ call.sweeps + Len(call.rest) = Len(call.query)
          /\ LET r == Step(self, call)
             IN \/ r.call.pc = "done"
                \/ r.call.pc = "loop" /\ Len(r.call.rest) < Len(call.rest)
    /\ Done => call.exit \in {"past_end", "no_match", "final"}

\* a query longer than its non-empty target has been answered after a sweep
C9_Witness ==
    /\ Done /\ call.target # <<>> /\ Len(call.query) > Len(call.target)
    /\ call.sweeps >= 1 /\ call.result = None

\* s with the characters at the positions P replaced by their image under f
Replaced(s, P, f(_)) == [j \in 1..Len(s) |-> IF j \in P THEN f(s[j]) ELSE s[j]]

SlashSwap(c) == IF c = 47 THEN 92 ELSE IF c = 92 THEN 47 ELSE c

\* s with any of its '/' replaced by '\\' and any of its '\\' by '/'
SlashVariants(s) ==
    {Replaced(s, P, SlashSwap) : P \in SUBSET {j \in 1..Len(s) : is_path_separator(s[j])}}

\* C7: replacing '/' by '\\' or '\\' by '/' anywhere in the query or in the
\* target does not change whether the call returns Some or None.
C7_PathSeparatorEquivalence ==
    Done => /\ \A q \in SlashVariants(call.query) :
                   IsSome(fuzzy_match(call.target, q)) = IsSome(call.result)
            /\ \A t \in SlashVariants(call.target) :
                   IsSome(fuzzy_match(t, call.query)) = IsSome(call.result)

\* a query holding a '\\' matched a target that holds '/' and no '\\'
C7_Witness ==
    /\ Done /\ IsSome(call.result)
    /\ 92 \in Range(call.query) /\ 92 \notin Range(call.target)
    /\ 47 \in Range(call.target)

CaseSwap(c) ==
    IF c \in 65..90 THEN c + 32 ELSE IF c \in 97..122 THEN c - 32 ELSE c

\* the strings equal to s up to letter case and different from s
CaseVariants(s) ==
    {Replaced(s, P, CaseSwap) : P \in SUBSET {j \in 1..Len(s) : CaseSwap(s[j]) # s[j]}} \ {s}

\* query is an in-order subsequence of target, case-sensitively
RECURSIVE ExactSubsequence(_, _)
ExactSubsequence(target, query) ==
    IF query = <<>> THEN TRUE
    ELSE IF target = <<>> THEN FALSE
    ELSE IF Head(target) = Head(query)
         THEN ExactSubsequence(Tail(target), Tail(query))
         ELSE ExactSubsequence(Tail(target), query)

\* the score of X is strictly greater than the score of x
ScoresAbove(target, scoreX, x) ==
    LET r == fuzzy_match(target, x) IN IsSome(r) => scoreX > r[1]

\* C4 as claimed: a query X that is a case-sensitive subsequence of the target
\* scores strictly more than every query that differs from it only in case.
C4_CaseBonusAsClaimed ==
    Done /\ IsSome(call.result) /\ ExactSubsequence(call.target, call.query)
        => \A x \in CaseVariants(call.query) :
               ScoresAbove(call.target, call.result[1], x)

\* wherever x differs from X, the target characters that match x's character
\* are all X's character: the target holds it in X's case only
DiffersFromTarget(target, X, x) ==
    \A j \in 1..Len(X) :
        x[j] # X[j] => \A c \in Range(target) : char_matches(c, x[j]) => c = X[j]

\* C4: a query X that is a case-sensitive subsequence of the target scores
\* strictly more than a query x that differs from it only in case, when every
\* target character matching a character in which x differs is X's character.
C4_CaseBonus ==
    Done /\ IsSome(call.result) /\ ExactSubsequence(call.target, call.query)
        => \A x \in CaseVariants(call.query) :
               DiffersFromTarget(call.target, call.query, x)
                   => /\ IsSome(fuzzy_match(call.target, x))
                      /\ ScoresAbove(call.target, call.result[1], x)

\* a two-letter query in the target's case has been scored, and a query in
\* another case, which the target does not hold, matches too
C4_Witness ==
    /\ Done /\ IsSome(call.result) /\ Len(call.query) = 2
    /\ ExactSubsequence(call.target, call.query)
    /\ \E x \in CaseVariants(call.query) :
          /\ DiffersFromTarget(call.target, call.query, x)
          /\ IsSome(fuzzy_match(call.target, x))

\* the score of the j-th query of the ranking scenario
RankScore(j) == fuzzy_match(RankingTarget, RankingQueries[j])

\* C6 as claimed: the ranking queries all match with scores strictly
\* increasing in the listed order, and the four other queries return None.
C6_RankingAsClaimed ==
    Done /\ call.target = RankingTarget =>
        /\ \A j \in 1..Len(RankingQueries) :
              call.query = RankingQueries[j] =>
                  /\ IsSome(call.result)
                  /\ j < Len(RankingQueries) =>
                        IsSome(RankScore(j + 1)) /\ call.result[1] < RankScore(j + 1)[1]
        /\ call.query \in RankingNonMatches => call.result = None

\* C6: the ranking queries all match with scores that never decrease in the
\* listed order: "xz" and "ee" score the same, every later query scores
\* strictly more than the one before it; the four other queries return None.
C6_Ranking ==
    Done /\ call.target = RankingTarget =>
        /\ \A j \in 1..Len(RankingQueries) :
              call.query = RankingQueries[j] =>
                  /\ IsSome(call.result)
                  /\ j < Len(RankingQueries) =>
                        /\ IsSome(RankScore(j + 1))
                        /\ IF j = 1 THEN call.result[1] = RankScore(j + 1)[1]
                                    ELSE call.result[1] < RankScore(j + 1)[1]
        /\ call.query \in RankingNonMatches => call.result = None

\* "The" has been scored against the ranking target
C6_Witness ==
    /\ Done /\ call.target = RankingTarget /\ call.query = RankingQueries[7]
    /\ IsSome(call.result)

\* the score of word-start query a is strictly greater than that of mid-word
\* query b
WordStartAbove(target, a, b) ==
    call.target = target /\ call.query = a =>
        /\ IsSome(call.result)
        /\ IsSome(fuzzy_match(target, b))
        /\ call.result[1] > fuzzy_match(target, b)[1]

\* C5: letters taken from the start of a word score strictly more than the
\* same number of letters taken one letter later in that word: "wit" above
\* "ith" and "spa" above "pac" in "words with spaces", "und" above "nde" in
\* "words_with_underscores", "Wor" above "ord" in "camelCaseWords".
C5_WordStartBonus ==
    Done => /\ WordStartAbove(WordsWithSpaces, Q_wit, Q_ith)
            /\ WordStartAbove(WordsWithSpaces, Q_spa, Q_pac)
            /\ WordStartAbove(WordsWithUnderscores, Q_und, Q_nde)
            /\ WordStartAbove(CamelCaseWords, Q_Wor, Q_ord)

\* the in-order placements of q on target positions 0..i: p[k] is the
\* position of q[k]
Placements(target, q, i) ==
    {p \in [1..Len(q) -> 0..i] :
        /\ \A k \in 1..Len(q) : char_matches(target[p[k] + 1], q[k])
        /\ \A k \in 2..Len(q) : p[k - 1] < p[k]}

\* the number of query characters placed contiguously just before q[k]
RECURSIVE RunBefore(_, _)
RunBefore(p, k) ==
    IF k = 1 THEN 0
    ELSE IF p[k - 1] + 1 = p[k] THEN RunBefore(p, k - 1) + 1
    ELSE 0

\* the sum of the per-character scores of the first k characters of a placement
RECURSIVE PlacementScore(_, _, _, _)
PlacementScore(target, q, p, k) ==
    IF k = 0 THEN 0
    ELSE PlacementScore(target, q, p, k - 1)
         + char_score(target[p[k] + 1], q[k], p[k], Len(target), RunBefore(p, k),
                      p[k] > 0 /\ target_separator(target[p[k]]))

\* the best score of a placement of q on target positions 0..i; 0 without one
BestScore(target, q, i) ==
    LET scores == {PlacementScore(target, q, p, Len(q)) : p \in Placements(target, q, i)}
    IN IF scores = {} THEN 0 ELSE CHOOSE x \in scores : \A y \in scores : y <= x

\* C10: after the k-th query character, the previous score row holds at every
\* position i from the character's first match on the best score of a
\* placement of the first k query characters on positions 0..i; the returned
\* score is the best score of a placement of the whole query.
C10_RowOptimality ==
    /\ call.pc = "loop" /\ call.sweeps >= 1 =>
          \A i \in (call.first_possible_target_idx - 1)..(Len(call.target) - 1) :
              self.prev_score[i + 1]
                  = BestScore(call.target, SubSeq(call.query, 1, call.sweeps), i)
    /\ Done /\ IsSome(call.result) =>
          call.result[1] = BestScore(call.target, call.query, Len(call.target) - 1)

\* ------------------------------------------------------ cursor pruning

\* The sweep without the cursor: every target position from 0 is visited, both
\* rows are zeroed in full and copied in full, and the previous-is-separator
\* flag is tracked from position 0.
UnprunedSweepStep(m, c) ==
    LET n == Len(m.target_chars)
        loc0 == [score |-> Fill(m.score, 0, n),
                 seq_match_counts |-> Fill(m.seq_match_counts, 0, n),
                 first_nonzero_score |-> None, prev_is_separator |-> FALSE,
                 panic |-> FALSE, cells |-> 0]
        loc == SweepLoop(m, Head(c.rest), c.first_query_char, 0, loc0, 0)
        m1 == [m EXCEPT !.score = loc.score, !.seq_match_counts = loc.seq_match_counts]
        c1 == [c EXCEPT !.rest = Tail(@), !.sweeps = @ + 1, !.cells = loc.cells]
    IN IF loc.panic THEN [self |-> m1, call |-> [c1 EXCEPT !.pc = "panic"]]
       ELSE IF loc.first_nonzero_score = None THEN ReturnNone(m1, c1, "no_match")
       ELSE [self |-> [m1 EXCEPT !.prev_score = loc.score,
                                 !.prev_seq_match_counts = loc.seq_match_counts],
             call |-> [c1 EXCEPT !.first_query_char = FALSE]]

\* the unpruned sweeps of all the characters left in c.rest
RECURSIVE UnprunedSweeps(_, _)
UnprunedSweeps(m, c) ==
    IF c.pc # "loop" \/ c.rest = <<>> THEN [self |-> m, call |-> c]
    ELSE LET r == UnprunedSweepStep(m, c) IN UnprunedSweeps(r.self, r.call)

\* the matcher and the locals after the unpruned sweeps of query on a new matcher
UnprunedRows(target, query) ==
    UnprunedSweeps(Enter(New, target), Locals(target, query, "new"))

\* the result of the unpruned variant
unpruned_fuzzy_match(target, query) ==
    LET u == UnprunedRows(target, query)
    IN IF u.call.pc = "loop" THEN FinalStep(u.self, u.call).call.result
       ELSE u.call.result

\* the matcher with every stale row entry overwritten by v: the entries of
\* score and seq_match_counts below the cursor, which the next fill leaves
\* alone, and the entries of prev_score and prev_seq_match_counts below the
\* last first match, which the last copy left alone
StaleOverwritten(m, cursor, v) ==
    [m EXCEPT
       !.score = [j \in 1..Len(@) |-> IF j - 1 < cursor THEN v ELSE @[j]],
       !.seq_match_counts = [j \in 1..Len(@) |-> IF j - 1 < cursor THEN v ELSE @[j]],
       !.prev_score = [j \in 1..Len(@) |-> IF j - 1 < cursor - 1 THEN v ELSE @[j]],
       !.prev_seq_match_counts =
           [j \in 1..Len(@) |-> IF j - 1 < cursor - 1 THEN v ELSE @[j]]]

\* C11: cursor pruning does not affect results.  A finished call returns what
\* the unpruned variant returns for the same target and query.  While a call
\* is in progress, the entries of the previous rows at and after the last first
\* match are those of the unpruned variant after the same query characters (so
\* neither a stale entry nor the flag restarted as false at the cursor has
\* changed a score or a run count); the next sweep moves the cursor strictly
\* forward; and the call returns the same result whatever the stale entries
\* hold, so none of them is read.
C11_CursorPruning ==
    /\ Done => call.result = unpruned_fuzzy_match(call.target, call.query)
    /\ call.pc = "loop" =>
          LET u == UnprunedRows(call.target, SubSeq(call.query, 1, call.sweeps))
              cursor == call.first_possible_target_idx
          IN /\ u.call.pc = "loop"
             /\ \A j \in 1..Len(call.target) :
                    j >= cursor =>
                       /\ self.prev_score[j] = u.self.prev_score[j]
                       /\ self.prev_seq_match_counts[j] = u.self.prev_seq_match_counts[j]
             /\ call.rest # <<>> /\ ~PastEnd(self, call) =>
                    LET r == SweepStep(self, call)
                    IN r.call.pc = "loop" =>
                          r.call.first_possible_target_idx > cursor
             /\ cursor > 0 =>
                    LET result == Run(self, call).call.result
                    IN \A v \in {1, 1000} :
                          Run(StaleOverwritten(self, cursor, v), call).call.result
                             = result

\* a call has matched two query characters, the first of them on a separator
\* (so the second sweep started right after it with the flag restarted), and
\* left below the cursor a row entry that differs from the unpruned variant's
C11_Witness ==
    /\ Done /\ IsSome(call.result) /\ call.sweeps = 2
    /\ target_separator(call.query[1])
    /\ call.first_possible_target_idx >= 2
    /\ \E j \in 1..Len(call.target) :
          /\ j < call.first_possible_target_idx
          /\ self.prev_score[j] # UnprunedRows(call.target, call.query).self.prev_score[j]

\* ------------------------------------------------------------ tie-break

\* the candidate score of the next query character of the call c at target
\* position i (0-based, after the cursor), from the rows of the matcher m
Candidate(m, c, i) ==
    m.prev_score[i]
    + char_score(m.target_chars[i + 1], Head(c.rest), i, Len(m.target_chars),
                 m.prev_seq_match_counts[i], target_separator(m.target_chars[i]))

\* The next sweep of the call c meets a tie at target position i: the query
\* character matches there, and its candidate score equals the nonzero best
\* score that the sweep has recorded in the current row at position i - 1.
\* row is the score row the sweep leaves.
Tie(m, c, row, i) ==
    /\ i > c.first_possible_target_idx /\ i < Len(m.target_chars)
    /\ ~skip(c.first_query_char, m.prev_score[i])
    /\ char_matches(m.target_chars[i + 1], Head(c.rest))
    /\ row[i] # 0
    /\ Candidate(m, c, i) = row[i]

\* the calls about to sweep
AboutToSweep == call.pc = "loop" /\ call.rest # <<>> /\ ~PastEnd(self, call)

\* C12 as claimed: on a tie the earlier match is kept and position i is not
\* recorded as a match point, its run count stays 0
C12_TieBreakAsClaimed ==
    AboutToSweep =>
       LET r == SweepStep(self, call)
       IN \A i \in 0..(Len(call.target) - 1) :
             Tie(self, call, r.self.score, i) =>
                /\ r.self.score[i + 1] = r.self.score[i]
                /\ r.self.seq_match_counts[i + 1] = 0

\* C12: on a tie the later match is accepted.  When the candidate score at
\* position i equals the nonzero best score recorded at position i - 1 of the
\* current row, position i is recorded as a match point: the row keeps the
\* same score there, and its run count is that of the previous query character
\* at position i - 1 plus one, never 0.
C12_TieBreak ==
    AboutToSweep =>
       LET r == SweepStep(self, call)
       IN \A i \in 0..(Len(call.target) - 1) :
             Tie(self, call, r.self.score, i) =>
                /\ r.self.score[i + 1] = r.self.score[i]
                /\ r.self.seq_match_counts[i + 1] = self.prev_seq_match_counts[i] + 1
                /\ r.self.seq_match_counts[i + 1] >= 1

\* the sweep of the first query character has left a tie in its row: a match
\* point whose score equals the nonzero score recorded just before it
C12_Witness ==
    /\ call.pc = "loop" /\ call.sweeps = 1
    /\ \E i \in 1..(Len(call.target) - 1) :
          /\ self.score[i] # 0
          /\ self.score[i + 1] = self.score[i]
          /\ self.seq_match_counts[i + 1] = 1

====
